---- MODULE Spec2Model ----
(***************************************************************************)
(* Package dependency analysis (src/main.py).                              *)
(*                                                                         *)
(* A graph is the Python dict built by carregar_arquivo: an insertion      *)
(* ordered mapping from a package to the list of its dependencies.  It is  *)
(* modelled as a record [chaves, adj]: chaves is the sequence of keys in   *)
(* insertion (= iteration) order and adj maps each key to its list.        *)
(*                                                                         *)
(* Three specifications:                                                   *)
(*   Spec          the analyses as calls on a loaded graph                 *)
(*   SpecOrdem     ordem_instalacao executed step by step (call stack)     *)
(*   SpecCarregar  carregar_arquivo reading a file line by line            *)
(***************************************************************************)
EXTENDS Integers, Sequences, FiniteSets, TLC

VARIABLES grafo, op, arg, res, pc, visitado, ordem, pilha, prox, saida, entrada

vars == <<grafo, op, arg, res, pc, visitado, ordem, pilha, prox, saida, entrada>>

(* the variables of the step-by-step run of ordem_instalacao *)
varsOrdem == <<pc, visitado, ordem, pilha, prox, saida>>

(* the variables of the calls of Spec *)
varsChamada == <<op, arg, res>>

----------------------------------------------------------------------------
(* Bounds of the model *)

(* largest number of keys of a graph *)
NumNos == 3

(* largest number of edges of a graph, parallel edges each counted *)
MaxArestas == 3

(* longest input line, in characters *)
MaxLen == 3

(* largest number of lines of an input file *)
MaxLinhas == 2

----------------------------------------------------------------------------
(* Sequences and dicts *)

Range(s) == {s[i] : i \in 1..Len(s)}

Reverse(s) == [i \in 1..Len(s) |-> s[Len(s) + 1 - i]]

(* grafo.get(no, []) *)
Get(g, no) == IF no \in DOMAIN g.adj THEN g.adj[no] ELSE <<>>

GrafoVazio == [chaves |-> <<>>, adj |-> <<>>]

----------------------------------------------------------------------------
(* The graphs the analyses are called on: keys 1..n in insertion order,    *)
(* every destination a key, at most MaxArestas edges.  Labels are opaque   *)
(* to the analyses, so fixing the keys' order as 1..n loses no graph up to *)
(* renaming.                                                               *)

RECURSIVE Listas(_, _)
Listas(len, S) ==
    IF len = 0 THEN {<<>>}
    ELSE {Append(s, x) : s \in Listas(len - 1, S), x \in S}

RECURSIVE Adjs(_, _, _)
Adjs(i, n, e) ==
    IF i = 0 THEN {<<>>}
    ELSE UNION {{Append(a, l) : a \in Adjs(i - 1, n, e - len), l \in Listas(len, 1..n)}
                : len \in 0..e}

Grafos ==
    UNION {{[chaves |-> [j \in 1..n |-> j], adj |-> a] : a \in Adjs(n, n, MaxArestas)}
           : n \in 0..NumNos}

(* labels a query may name: the keys and labels absent from the graph *)
Rotulos == 0..NumNos

----------------------------------------------------------------------------
(* Reference notions the claims are stated with *)

NosDe(g) == Range(g.chaves) \cup UNION {Range(g.adj[n]) : n \in DOMAIN g.adj}

(* the edges of g, each as <<origin, position in the origin's list>> *)
Arestas(g) == UNION {{<<u, i>> : i \in 1..Len(g.adj[u])} : u \in DOMAIN g.adj}

Sucessores(g, S) == UNION {Range(Get(g, n)) : n \in S}

RECURSIVE Fecho(_, _)
Fecho(g, S) ==
    LET T == S \cup Sucessores(g, S)
    IN  IF T = S THEN S ELSE Fecho(g, T)

(* the nodes a directed path of at least one edge leads to from n *)
Alcance(g, n) == Fecho(g, Sucessores(g, {n}))

TemCicloDirigido(g) == \E n \in NosDe(g) : n \in Alcance(g, n)

DestinosSaoChaves(g) == \A n \in DOMAIN g.adj : Range(g.adj[n]) \subseteq DOMAIN g.adj

----------------------------------------------------------------------------
(* tem_ciclo *)

RECURSIVE tem_ciclo_dfs(_, _, _)
RECURSIVE tem_ciclo_vizinhos(_, _, _, _)

(* the body of dfs(no); st = [visitado, recursao, achou], achou the value returned *)
tem_ciclo_dfs(g, no, st) ==
    tem_ciclo_vizinhos(g, no, 1,
        [visitado |-> st.visitado \cup {no},
         recursao |-> st.recursao \cup {no},
         achou    |-> FALSE])

(* tem_ciclo_vizinhos without recursao.remove(no) *)
tem_ciclo_vizinhos_sem_remove(g, no, i, st) ==
    LET viz == Get(g, no)
    IN  IF i > Len(viz)
        THEN st
        ELSE IF viz[i] \notin st.visitado
             THEN LET r == tem_ciclo_dfs(g, viz[i], st)
                  IN  IF r.achou THEN r ELSE tem_ciclo_vizinhos(g, no, i + 1, r)
             ELSE IF viz[i] \in st.recursao
                  THEN [st EXCEPT !.achou = TRUE]
                  ELSE tem_ciclo_vizinhos(g, no, i + 1, st)

(* the loop over grafo.get(no, []) from position i, then recursao.remove(no) *)
tem_ciclo_vizinhos(g, no, i, st) ==
    LET viz == Get(g, no)
    IN  IF i > Len(viz)
        THEN [st EXCEPT !.recursao = @ \ {no}]
        ELSE IF viz[i] \notin st.visitado
             THEN LET r == tem_ciclo_dfs(g, viz[i], st)
                  IN  IF r.achou THEN r ELSE tem_ciclo_vizinhos(g, no, i + 1, r)
             ELSE IF viz[i] \in st.recursao
                  THEN [st EXCEPT !.achou = TRUE]
                  ELSE tem_ciclo_vizinhos(g, no, i + 1, st)

RECURSIVE tem_ciclo_laco(_, _, _)
(* for no in grafo: if no not in visitado: if dfs(no): return True *)
tem_ciclo_laco(g, j, st) ==
    IF j > Len(g.chaves)
    THEN FALSE
    ELSE IF g.chaves[j] \notin st.visitado
         THEN LET r == tem_ciclo_dfs(g, g.chaves[j], st)
              IN  IF r.achou THEN TRUE ELSE tem_ciclo_laco(g, j + 1, r)
         ELSE tem_ciclo_laco(g, j + 1, st)

tem_ciclo(g) == tem_ciclo_laco(g, 1, [visitado |-> {}, recursao |-> {}, achou |-> FALSE])

----------------------------------------------------------------------------
(* encontrar_cfc (Tarjan) *)

Min(a, b) == IF a < b THEN a ELSE b

RECURSIVE encontrar_cfc_dfs(_, _, _)
RECURSIVE encontrar_cfc_vizinhos(_, _, _, _)
RECURSIVE encontrar_cfc_desempilha(_, _, _)

(* encontrar_cfc_desempilha keeping the components of one node too *)
encontrar_cfc_desempilha_unitarios(no, st, componente) ==
    LET v    == st.pilha[Len(st.pilha)]
        st1  == [st EXCEPT !.pilha = SubSeq(@, 1, Len(@) - 1),
                           !.na_pilha = @ \ {v}]
        comp == Append(componente, v)
    IN  IF v = no
        THEN [st1 EXCEPT !.cfc = Append(@, comp)]
        ELSE encontrar_cfc_desempilha(no, st1, comp)

(* the while True loop: pop down to and including no, keep the component   *)
(* when it has more than one node                                          *)
encontrar_cfc_desempilha(no, st, componente) ==
    LET v    == st.pilha[Len(st.pilha)]
        st1  == [st EXCEPT !.pilha = SubSeq(@, 1, Len(@) - 1),
                           !.na_pilha = @ \ {v}]
        comp == Append(componente, v)
    IN  IF v = no
        THEN IF Len(comp) > 1 THEN [st1 EXCEPT !.cfc = Append(@, comp)] ELSE st1
        ELSE encontrar_cfc_desempilha(no, st1, comp)

(* the loop over grafo.get(no, []) from position i *)
encontrar_cfc_vizinhos(g, no, i, st) ==
    LET viz == Get(g, no)
    IN  IF i > Len(viz)
        THEN st
        ELSE IF viz[i] \notin DOMAIN st.indices
             THEN LET r == encontrar_cfc_dfs(g, viz[i], st)
                  IN  encontrar_cfc_vizinhos(g, no, i + 1,
                          [r EXCEPT !.lowlinks[no] = Min(@, r.lowlinks[viz[i]])])
             ELSE IF viz[i] \in st.na_pilha
                  THEN encontrar_cfc_vizinhos(g, no, i + 1,
                          [st EXCEPT !.lowlinks[no] = Min(@, st.indices[viz[i]])])
                  ELSE encontrar_cfc_vizinhos(g, no, i + 1, st)

(* the body of dfs(no); st = [index, indices, lowlinks, pilha, na_pilha, cfc] *)
encontrar_cfc_dfs(g, no, st) ==
    LET st1 == [st EXCEPT !.indices  = (no :> st.index) @@ @,
                          !.lowlinks = (no :> st.index) @@ @,
                          !.index    = @ + 1,
                          !.pilha    = Append(@, no),
                          !.na_pilha = @ \cup {no}]
        st2 == encontrar_cfc_vizinhos(g, no, 1, st1)
    IN  IF st2.lowlinks[no] = st2.indices[no]
        THEN encontrar_cfc_desempilha(no, st2, <<>>)
        ELSE st2

RECURSIVE encontrar_cfc_laco(_, _, _)
(* for no in grafo: if no not in indices: dfs(no) *)
encontrar_cfc_laco(g, j, st) ==
    IF j > Len(g.chaves)
    THEN st
    ELSE IF g.chaves[j] \notin DOMAIN st.indices
         THEN encontrar_cfc_laco(g, j + 1, encontrar_cfc_dfs(g, g.chaves[j], st))
         ELSE encontrar_cfc_laco(g, j + 1, st)

encontrar_cfc(g) ==
    encontrar_cfc_laco(g, 1,
        [index |-> 0, indices |-> <<>>, lowlinks |-> <<>>,
         pilha |-> <<>>, na_pilha |-> {}, cfc |-> <<>>]).cfc

----------------------------------------------------------------------------
(* encontrar_pacotes_criticos *)

(* an insertion ordered dict of counters: [chaves, val] *)
DictVazio == [chaves |-> <<>>, val |-> <<>>]

(* d[ch] = v *)
DictSet(d, ch, v) ==
    IF ch \in DOMAIN d.val
    THEN [d EXCEPT !.val[ch] = v]
    ELSE [chaves |-> Append(d.chaves, ch), val |-> (ch :> v) @@ d.val]

(* d.get(ch, 0) *)
DictGet0(d, ch) == IF ch \in DOMAIN d.val THEN d.val[ch] ELSE 0

RECURSIVE in_degree_zera_destinos(_, _, _)
(* for destino in grafo[no]: in_degree[destino] = in_degree.get(destino, 0) *)
in_degree_zera_destinos(lista, i, d) ==
    IF i > Len(lista)
    THEN d
    ELSE in_degree_zera_destinos(lista, i + 1, DictSet(d, lista[i], DictGet0(d, lista[i])))

RECURSIVE in_degree_zera(_, _, _)
(* for no in grafo: in_degree[no] = in_degree.get(no, 0); then its destinations *)
in_degree_zera(g, j, d) ==
    IF j > Len(g.chaves)
    THEN d
    ELSE LET no == g.chaves[j]
         IN  in_degree_zera(g, j + 1,
                 in_degree_zera_destinos(g.adj[no], 1, DictSet(d, no, DictGet0(d, no))))

RECURSIVE in_degree_conta_destinos(_, _, _)
(* in_degree_conta_destinos with in_degree[destino] = 1 for += 1 *)
in_degree_conta_destinos_uma_vez(lista, i, d) ==
    IF i > Len(lista)
    THEN d
    ELSE in_degree_conta_destinos(lista, i + 1, DictSet(d, lista[i], 1))

(* for destino in grafo[origem]: in_degree[destino] += 1 *)
in_degree_conta_destinos(lista, i, d) ==
    IF i > Len(lista)
    THEN d
    ELSE in_degree_conta_destinos(lista, i + 1, DictSet(d, lista[i], DictGet0(d, lista[i]) + 1))

RECURSIVE in_degree_conta(_, _, _)
(* for origem in grafo: ... *)
in_degree_conta(g, j, d) ==
    IF j > Len(g.chaves)
    THEN d
    ELSE in_degree_conta(g, j + 1, in_degree_conta_destinos(g.adj[g.chaves[j]], 1, d))

RECURSIVE max_valores(_, _, _)
(* max(in_degree.values()), the dict not empty *)
max_valores(d, j, m) ==
    IF j > Len(d.chaves)
    THEN m
    ELSE max_valores(d, j + 1, IF d.val[d.chaves[j]] > m THEN d.val[d.chaves[j]] ELSE m)

(* pacotes_com_grau stopping at the first package found *)
pacotes_com_grau_primeiro(d, grau) ==
    SubSeq(SelectSeq(d.chaves, LAMBDA pacote : d.val[pacote] = grau), 1, 1)

(* [pacote for pacote, grau in in_degree.items() if grau == max_dependentes] *)
pacotes_com_grau(d, grau) == SelectSeq(d.chaves, LAMBDA pacote : d.val[pacote] = grau)

encontrar_pacotes_criticos(g) ==
    LET in_degree == in_degree_conta(g, 1, in_degree_zera(g, 1, DictVazio))
    IN  IF in_degree.chaves = <<>>
        THEN [criticos |-> <<>>, max |-> 0, tabela |-> DictVazio]
        ELSE LET max_dependentes == max_valores(in_degree, 2, in_degree.val[in_degree.chaves[1]])
             IN  [criticos |-> pacotes_com_grau(in_degree, max_dependentes),
                  max      |-> max_dependentes,
                  tabela   |-> in_degree]

----------------------------------------------------------------------------
(* consultar_dependencias *)

RECURSIVE consultar_dependencias_dfs(_, _, _, _)
(* dfs(no), the loop over grafo.get(no, []) from position i; vis is visitado *)
consultar_dependencias_dfs(g, no, i, vis) ==
    LET viz == Get(g, no)
    IN  IF i > Len(viz)
        THEN vis
        ELSE IF viz[i] \notin vis
             THEN consultar_dependencias_dfs(g, no, i + 1,
                      consultar_dependencias_dfs(g, viz[i], 1, vis \cup {viz[i]}))
             ELSE consultar_dependencias_dfs(g, no, i + 1, vis)

(* consultar_dependencias with the start package marked visited *)
consultar_dependencias_com_inicio(g, pacote) ==
    consultar_dependencias_dfs(g, pacote, 1, {pacote})

consultar_dependencias(g, pacote) == consultar_dependencias_dfs(g, pacote, 1, {})

----------------------------------------------------------------------------
(* simular_remocao *)

(* inverte_aresta keeping the edge's direction *)
inverte_aresta_sem_inverter(inv, origem, destino) ==
    IF origem \in DOMAIN inv.adj
    THEN [inv EXCEPT !.adj[origem] = Append(@, destino)]
    ELSE [chaves |-> Append(inv.chaves, origem),
          adj    |-> (origem :> <<destino>>) @@ inv.adj]

(* grafo_invertido[destino].append(origem), grafo_invertido a defaultdict(list) *)
inverte_aresta(inv, origem, destino) ==
    IF destino \in DOMAIN inv.adj
    THEN [inv EXCEPT !.adj[destino] = Append(@, origem)]
    ELSE [chaves |-> Append(inv.chaves, destino),
          adj    |-> (destino :> <<origem>>) @@ inv.adj]

RECURSIVE inverte_destinos(_, _, _, _)
(* for destino in grafo[origem] *)
inverte_destinos(g, origem, i, inv) ==
    IF i > Len(g.adj[origem])
    THEN inv
    ELSE inverte_destinos(g, origem, i + 1, inverte_aresta(inv, origem, g.adj[origem][i]))

RECURSIVE inverte_grafo(_, _, _)
(* for origem in grafo *)
inverte_grafo(g, j, inv) ==
    IF j > Len(g.chaves)
    THEN inv
    ELSE inverte_grafo(g, j + 1, inverte_destinos(g, g.chaves[j], 1, inv))

RECURSIVE simular_remocao_dfs(_, _, _, _)
(* dfs(no) over grafo_invertido.get(no, []) from position i *)
simular_remocao_dfs(inv, no, i, afetados) ==
    LET deps == Get(inv, no)
    IN  IF i > Len(deps)
        THEN afetados
        ELSE IF deps[i] \notin afetados
             THEN simular_remocao_dfs(inv, no, i + 1,
                      simular_remocao_dfs(inv, deps[i], 1, afetados \cup {deps[i]}))
             ELSE simular_remocao_dfs(inv, no, i + 1, afetados)

simular_remocao(g, pacote_removido) ==
    simular_remocao_dfs(inverte_grafo(g, 1, GrafoVazio), pacote_removido, 1, {})

----------------------------------------------------------------------------
(* Spec: the analyses called on a loaded graph.  op names the last call,   *)
(* arg its package argument and res what it returned.                      *)

OrdemParada ==
    /\ pc = "parado"
    /\ visitado = {}
    /\ ordem = <<>>
    /\ pilha = <<>>
    /\ prox = 0
    /\ saida = <<>>

Init ==
    /\ grafo \in Grafos
    /\ op = "nenhuma"
    /\ arg = 0
    /\ res = <<>>
    /\ OrdemParada
    /\ entrada = <<>>

TemCiclo ==
    /\ op' = "tem_ciclo"
    /\ arg' = 0
    /\ res' = tem_ciclo(grafo)
    /\ UNCHANGED <<grafo, varsOrdem, entrada>>

EncontrarCfc ==
    /\ op' = "encontrar_cfc"
    /\ arg' = 0
    /\ res' = encontrar_cfc(grafo)
    /\ UNCHANGED <<grafo, varsOrdem, entrada>>

EncontrarPacotesCriticos ==
    /\ op' = "encontrar_pacotes_criticos"
    /\ arg' = 0
    /\ res' = encontrar_pacotes_criticos(grafo)
    /\ UNCHANGED <<grafo, varsOrdem, entrada>>

ConsultarDependencias ==
    \E pacote \in Rotulos :
        /\ op' = "consultar_dependencias"
        /\ arg' = pacote
        /\ res' = consultar_dependencias(grafo, pacote)
        /\ UNCHANGED <<grafo, varsOrdem, entrada>>

SimularRemocao ==
    \E pacote \in Rotulos :
        /\ op' = "simular_remocao"
        /\ arg' = pacote
        /\ res' = simular_remocao(grafo, pacote)
        /\ UNCHANGED <<grafo, varsOrdem, entrada>>

Next ==
    \/ TemCiclo
    \/ EncontrarCfc
    \/ EncontrarPacotesCriticos
    \/ ConsultarDependencias
    \/ SimularRemocao

Spec == Init /\ [][Next]_vars

----------------------------------------------------------------------------
(* SpecOrdem: ordem_instalacao run step by step.  pilha is the call stack  *)
(* of dfs, one frame [no, i] per active call, i the position of the next   *)
(* neighbour of no to look at; prox is the position of the outer loop in   *)
(* the keys of grafo.                                                      *)

InitOrdem ==
    /\ grafo \in Grafos
    /\ op = "nenhuma"
    /\ arg = 0
    /\ res = <<>>
    /\ OrdemParada
    /\ entrada = <<>>

Topo == pilha[Len(pilha)]

(* ordem = list(); visitado = set() *)
OrdemInicio ==
    /\ pc = "parado"
    /\ pc' = "laco"
    /\ ordem' = <<>>
    /\ visitado' = {}
    /\ pilha' = <<>>
    /\ prox' = 1
    /\ UNCHANGED <<grafo, varsChamada, saida, entrada>>

(* OrdemLacoChama without the test of visitado *)
OrdemLacoChama_sem_teste ==
    /\ pc = "laco"
    /\ prox <= Len(grafo.chaves)
    /\ pilha' = <<[no |-> grafo.chaves[prox], i |-> 1]>>
    /\ visitado' = visitado \cup {grafo.chaves[prox]}
    /\ pc' = "dfs"
    /\ UNCHANGED <<grafo, varsChamada, ordem, prox, saida, entrada>>

(* for no in grafo: if no not in visitado: dfs(no), up to visitado.add(no) *)
OrdemLacoChama ==
    /\ pc = "laco"
    /\ prox <= Len(grafo.chaves)
    /\ grafo.chaves[prox] \notin visitado
    /\ pilha' = <<[no |-> grafo.chaves[prox], i |-> 1]>>
    /\ visitado' = visitado \cup {grafo.chaves[prox]}
    /\ pc' = "dfs"
    /\ UNCHANGED <<grafo, varsChamada, ordem, prox, saida, entrada>>

(* for no in grafo: no already visited *)
OrdemLacoPula ==
    /\ pc = "laco"
    /\ prox <= Len(grafo.chaves)
    /\ grafo.chaves[prox] \in visitado
    /\ prox' = prox + 1
    /\ UNCHANGED <<grafo, varsChamada, pc, visitado, ordem, pilha, saida, entrada>>

(* for vizinho in grafo.get(no, []): if vizinho not in visitado: dfs(vizinho) *)
OrdemDfsDesce ==
    /\ pc = "dfs"
    /\ Topo.i <= Len(Get(grafo, Topo.no))
    /\ LET vizinho == Get(grafo, Topo.no)[Topo.i]
       IN  /\ vizinho \notin visitado
           /\ pilha' = Append([pilha EXCEPT ![Len(pilha)].i = @ + 1],
                              [no |-> vizinho, i |-> 1])
           /\ visitado' = visitado \cup {vizinho}
    /\ UNCHANGED <<grafo, varsChamada, pc, ordem, prox, saida, entrada>>

(* for vizinho in grafo.get(no, []): vizinho already visited *)
OrdemDfsPula ==
    /\ pc = "dfs"
    /\ Topo.i <= Len(Get(grafo, Topo.no))
    /\ Get(grafo, Topo.no)[Topo.i] \in visitado
    /\ pilha' = [pilha EXCEPT ![Len(pilha)].i = @ + 1]
    /\ UNCHANGED <<grafo, varsChamada, pc, visitado, ordem, prox, saida, entrada>>

(* ordem.append(no) and the return of dfs(no) *)
OrdemDfsRetorna ==
    /\ pc = "dfs"
    /\ Topo.i > Len(Get(grafo, Topo.no))
    /\ ordem' = Append(ordem, Topo.no)
    /\ pilha' = SubSeq(pilha, 1, Len(pilha) - 1)
    /\ IF Len(pilha) = 1
       THEN pc' = "laco" /\ prox' = prox + 1
       ELSE UNCHANGED <<pc, prox>>
    /\ UNCHANGED <<grafo, varsChamada, visitado, saida, entrada>>

(* OrdemFim returning ordem as it is *)
OrdemFim_sem_inverter ==
    /\ pc = "laco"
    /\ prox > Len(grafo.chaves)
    /\ pc' = "fim"
    /\ op' = "ordem_instalacao"
    /\ res' = ordem
    /\ UNCHANGED <<grafo, arg, visitado, ordem, pilha, prox, saida, entrada>>

(* return ordem[::-1] *)
OrdemFim ==
    /\ pc = "laco"
    /\ prox > Len(grafo.chaves)
    /\ pc' = "fim"
    /\ op' = "ordem_instalacao"
    /\ res' = Reverse(ordem)
    /\ UNCHANGED <<grafo, arg, visitado, ordem, pilha, prox, saida, entrada>>

(* main, choice 1 when tem_ciclo(grafo) is false: print(" -> ".join(ordem)) *)
Imprimir ==
    /\ pc = "fim"
    /\ ~tem_ciclo(grafo)
    /\ saida' = res
    /\ pc' = "impresso"
    /\ UNCHANGED <<grafo, varsChamada, visitado, ordem, pilha, prox, entrada>>

NextOrdem ==
    \/ OrdemInicio
    \/ OrdemLacoChama
    \/ OrdemLacoPula
    \/ OrdemDfsDesce
    \/ OrdemDfsPula
    \/ OrdemDfsRetorna
    \/ OrdemFim
    \/ Imprimir

(* the run is sequential code: a step that can be taken is taken *)
SpecOrdem == InitOrdem /\ [][NextOrdem]_vars /\ WF_vars(NextOrdem)

----------------------------------------------------------------------------
(* SpecCarregar: carregar_arquivo.  A line is a sequence of characters,    *)
(* a package name the sequence of its characters; entrada is the lines     *)
(* read so far.                                                            *)

Espaco == " "

Caracteres == {"a", "b", Espaco}

Linhas == UNION {Listas(len, Caracteres) : len \in 0..MaxLen}

RECURSIVE strip(_)
(* str.strip() *)
strip(s) ==
    IF s = <<>> THEN s
    ELSE IF s[1] = Espaco THEN strip(Tail(s))
    ELSE IF s[Len(s)] = Espaco THEN strip(SubSeq(s, 1, Len(s) - 1))
    ELSE s

RECURSIVE split_de(_, _, _, _)
(* str.split(' ') from position i; atual is the piece being read *)
split_de(s, i, atual, pedacos) ==
    IF i > Len(s) THEN Append(pedacos, atual)
    ELSE IF s[i] = Espaco
         THEN split_de(s, i + 1, <<>>, Append(pedacos, atual))
         ELSE split_de(s, i + 1, Append(atual, s[i]), pedacos)

split(s) == split_de(s, 1, <<>>, <<>>)

(* grafo[ch] on the defaultdict(list): a missing key is inserted with [] *)
acessa(g, ch) ==
    IF ch \in DOMAIN g.adj
    THEN g
    ELSE [chaves |-> Append(g.chaves, ch), adj |-> (ch :> <<>>) @@ g.adj]

(* grafo[linha[0]].append(depend); grafo[depend] *)
adiciona_dependencia(g, pacote, depend) ==
    acessa([acessa(g, pacote) EXCEPT !.adj[pacote] = Append(@, depend)], depend)

RECURSIVE adiciona_dependencias(_, _, _)
(* for depend in linha[1::] *)
adiciona_dependencias(g, linha, i) ==
    IF i > Len(linha)
    THEN g
    ELSE adiciona_dependencias(adiciona_dependencia(g, linha[1], linha[i]), linha, i + 1)

(* the body of the loop over the lines of the file *)
processa_linha(g, l) == adiciona_dependencias(g, split(strip(l)), 2)

InitCarregar ==
    /\ grafo = GrafoVazio
    /\ entrada = <<>>
    /\ pc = "lendo"
    /\ op = "nenhuma"
    /\ arg = 0
    /\ res = <<>>
    /\ visitado = {}
    /\ ordem = <<>>
    /\ pilha = <<>>
    /\ prox = 0
    /\ saida = <<>>

(* for linha in arquivo: one more line of the file *)
LerLinha ==
    /\ pc = "lendo"
    /\ Len(entrada) < MaxLinhas
    /\ \E l \in Linhas :
           /\ entrada' = Append(entrada, l)
           /\ grafo' = processa_linha(grafo, l)
    /\ UNCHANGED <<varsChamada, varsOrdem>>

(* return dict(grafo) *)
FimArquivo ==
    /\ pc = "lendo"
    /\ pc' = "carregado"
    /\ UNCHANGED <<grafo, entrada, varsChamada, visitado, ordem, pilha, prox, saida>>

NextCarregar ==
    \/ LerLinha
    \/ FimArquivo

SpecCarregar == InitCarregar /\ [][NextCarregar]_vars

----------------------------------------------------------------------------
(* Notions the claims are stated with *)

(* the strongly connected component of n: n and the nodes on a cycle with n *)
CFC(g, n) == {n} \cup {m \in Alcance(g, n) : n \in Alcance(g, m)}

ComponentesFortes(g) == {CFC(g, n) : n \in NosDe(g)}

(* the nodes that have a directed path of at least one edge to n *)
Dependentes(g, n) == {m \in NosDe(g) : n \in Alcance(g, m)}

(* u occurs in s, and only before v *)
Antes(s, u, v) ==
    /\ \E i, j \in 1..Len(s) : i < j /\ s[i] = u /\ s[j] = v
    /\ ~\E i, j \in 1..Len(s) : j <= i /\ s[i] = u /\ s[j] = v

(* s lists every element of S exactly once *)
EhPermutacao(s, S) == Range(s) = S /\ Len(s) = Cardinality(S)

(* the number of edges of g that end at n *)
GrauDeEntrada(g, n) == Cardinality({e \in Arestas(g) : g.adj[e[1]][e[2]] = n})

MaxTabela(t) == CHOOSE m \in Range([j \in 1..Len(t.chaves) |-> t.val[t.chaves[j]]]) :
                    \A n \in DOMAIN t.val : t.val[n] <= m

RECURSIVE SomaTabela(_, _)
SomaTabela(t, j) == IF j > Len(t.chaves) THEN 0 ELSE t.val[t.chaves[j]] + SomaTabela(t, j + 1)

(* the package names of a line: its maximal runs of characters other than a space *)
Identificadores(l) ==
    {SubSeq(l, i, j) : i \in 1..Len(l), j \in 1..Len(l)} \cap
    UNION {{SubSeq(l, i, j) : j \in {x \in i..Len(l) :
                /\ \A y \in i..x : l[y] # Espaco
                /\ (x = Len(l) \/ l[x + 1] = Espaco)}}
           : i \in {x \in 1..Len(l) : x = 1 \/ l[x - 1] = Espaco}}

----------------------------------------------------------------------------
(* C1: on a graph whose destinations are all keys, tem_ciclo returns True  *)
(* exactly when the graph has a directed cycle (a self-loop included, in   *)
(* any part of the graph).                                                 *)
C1_TemCicloCorreto ==
    (op = "tem_ciclo" /\ DestinosSaoChaves(grafo))
        => (res <=> TemCicloDirigido(grafo))

(* tem_ciclo answered True on a graph with two cycles that share no node   *)
(* and do not reach one another                                            *)
C1_Witness ==
    /\ op = "tem_ciclo"
    /\ res = TRUE
    /\ \E a, b \in NosDe(grafo) :
          /\ a \in Alcance(grafo, a)
          /\ b \in Alcance(grafo, b)
          /\ a \notin Alcance(grafo, b)
          /\ b \notin Alcance(grafo, a)

(* C2: encontrar_cfc returns exactly the strongly connected components of  *)
(* more than one member: each returned list has at least two distinct      *)
(* nodes, the returned node sets are the components of size >= 2, none is  *)
(* returned twice, no node is in two of them, and a node alone in its      *)
(* component (self-loop or not) is in none.                                *)
C2_CfcCorreto ==
    op = "encontrar_cfc" =>
        /\ \A c \in 1..Len(res) :
              Len(res[c]) >= 2 /\ Cardinality(Range(res[c])) = Len(res[c])
        /\ {Range(res[c]) : c \in 1..Len(res)}
               = {comp \in ComponentesFortes(grafo) : Cardinality(comp) >= 2}
        /\ \A c, d \in 1..Len(res) : c # d => Range(res[c]) \cap Range(res[d]) = {}
        /\ \A n \in NosDe(grafo) :
              CFC(grafo, n) = {n} => \A c \in 1..Len(res) : n \notin Range(res[c])

(* a component was returned from a graph that also has a node whose only   *)
(* cycle is a self-loop                                                    *)
C2_Witness ==
    /\ op = "encontrar_cfc"
    /\ Len(res) >= 1
    /\ \E n \in NosDe(grafo) : n \in Range(Get(grafo, n)) /\ CFC(grafo, n) = {n}

C4_DependenciasPrimeiro ==
    pc = "impresso" =>
        \A e \in Arestas(grafo) : Antes(saida, grafo.adj[e[1]][e[2]], e[1])

C6_CriticosTodoGrafo ==
    op = "encontrar_pacotes_criticos" =>
        /\ res.criticos # <<>>
        /\ res.max = MaxTabela(res.tabela)
        /\ Range(res.criticos) = {n \in DOMAIN res.tabela.val : res.tabela.val[n] = res.max}
        /\ \A c, d \in 1..Len(res.criticos) :
              c < d => Antes(res.tabela.chaves, res.criticos[c], res.criticos[d])

(* C6 amended: the same on every graph that has at least one node *)
C6_CriticosGrafoNaoVazio ==
    (op = "encontrar_pacotes_criticos" /\ grafo.chaves # <<>>) =>
        /\ res.criticos # <<>>
        /\ res.max = MaxTabela(res.tabela)
        /\ Range(res.criticos) = {n \in DOMAIN res.tabela.val : res.tabela.val[n] = res.max}
        /\ \A c, d \in 1..Len(res.criticos) :
              c < d => Antes(res.tabela.chaves, res.criticos[c], res.criticos[d])

(* several packages tie at a maximum above the in-degree of another one *)
C6_Witness ==
    /\ op = "encontrar_pacotes_criticos"
    /\ Len(res.criticos) >= 2
    /\ res.max >= 1
    /\ \E n \in DOMAIN res.tabela.val : res.tabela.val[n] < res.max

(* C7: the in-degree table has one entry per node of the graph, each the   *)
(* number of edges that end at the node (parallel edges each counted), so  *)
(* the table sums to the number of edges.                                  *)
C7_TabelaDeGraus ==
    op = "encontrar_pacotes_criticos" =>
        /\ DOMAIN res.tabela.val = NosDe(grafo)
        /\ EhPermutacao(res.tabela.chaves, NosDe(grafo))
        /\ \A n \in NosDe(grafo) : res.tabela.val[n] = GrauDeEntrada(grafo, n)
        /\ SomaTabela(res.tabela, 1) = Cardinality(Arestas(grafo))

(* the table was returned for a graph with two parallel edges *)
C7_Witness ==
    /\ op = "encontrar_pacotes_criticos"
    /\ \E e, f \in Arestas(grafo) :
          /\ e # f
          /\ e[1] = f[1]
          /\ grafo.adj[e[1]][e[2]] = grafo.adj[f[1]][f[2]]
    /\ \E n \in NosDe(grafo) : res.tabela.val[n] >= 2

(* C8: consultar_dependencias(G, n) is the set of nodes a path of at least *)
(* one edge leads to from n; n is in it only when n is on a cycle, and it  *)
(* is empty when n is not in G.                                            *)
C8_ConsultaEhAlcance ==
    op = "consultar_dependencias" =>
        /\ res = Alcance(grafo, arg)
        /\ (arg \in res => arg \in Alcance(grafo, arg))
        /\ (arg \notin NosDe(grafo) => res = {})

(* the package asked about is on a cycle and has a dependency off it *)
C8_Witness ==
    /\ op = "consultar_dependencias"
    /\ arg \in res
    /\ \E m \in res : m \notin CFC(grafo, arg)

(* C9: m is in simular_remocao(G, n) exactly when G has a path of at least *)
(* one edge from m to n; the result is empty when n is not in G; the call  *)
(* leaves G as it was.                                                     *)
C9_SimulacaoEhDependentes ==
    [][op' = "simular_remocao" =>
          /\ res' = Dependentes(grafo, arg')
          /\ (arg' \notin NosDe(grafo) => res' = {})
          /\ grafo' = grafo]_vars

(* the removed package has a direct and an indirect dependent *)
C9_Witness ==
    /\ op = "simular_remocao"
    /\ \E m \in res : m # arg /\ arg \notin Range(Get(grafo, m))
    /\ \E m \in res : m # arg /\ arg \in Range(Get(grafo, m))

(* C10: after any lines are processed, every package name of the input is  *)
(* a key of the graph: every destination of an edge, and the package of a  *)
(* line that names no dependency (with an empty list).                     *)
C10_TodoNomeEhChave ==
    /\ \A n \in DOMAIN grafo.adj : Range(grafo.adj[n]) \subseteq DOMAIN grafo.adj
    /\ \A l \in 1..Len(entrada) : Identificadores(entrada[l]) \subseteq DOMAIN grafo.adj

====
